---- MODULE Spec2Model ----
(***************************************************************************)
(* A model of geouned/GEOUNED/core.py: CadToCsg.load_step_file,            *)
(* CadToCsg.start and the module-level helpers update_comment,             *)
(* process_cones, join_meta_lists and sort_enclosure.                      *)
(*                                                                         *)
(* Cells (GeounedSolid objects) live in the object store `cells`; the      *)
(* python lists hold references to them, so a cell that is in two lists is *)
(* one object, as in the program.  A list entry is either a reference to a *)
(* cell or a delimiter record (a GeounedSolid(None) that only carries a    *)
(* comment).  A label of 0 stands for python's None.                       *)
(***************************************************************************)
EXTENDS Integers, Sequences, FiniteSets, TLC

\* ------------------------------------------------------------------ bounds
MaxSolids == 2      \* entries of meta_list
MaxVoids == 2       \* void cells handed to the numbering functions
RunVoids == 1       \* void cells returned by void generation in a run of start()
MaxEnclID == 1      \* enclosure ids are 1..MaxEnclID, 0 is the outer level
MaxFiles == 2       \* step files given to load_step_file
MaxLabels == 2      \* labels in settings.voidExclude
StartCells == {1, 3}            \* values of settings.startCell

VARIABLES
    pc,             \* control point of the modelled call
    settings,       \* self.settings: voidGen, voidExclude, simplify, sort_enclosure, startCell
    cells,          \* object store: sequence of cell records
    meta_list,      \* self.meta_list
    enclosure_list, \* self.enclosure_list
    meta_void,      \* meta_void of start()
    meta_reduced,   \* meta_reduced of start(): the cells handed to void generation
    coneInfo,       \* coneInfo of start(): identity -> set of cone references
    idLabel,        \* idLabel of the numbering pass: identity -> label
    icount,         \* icount of the numbering pass
    j,              \* index of the running loop
    deleted,        \* deleted of the flat numbering
    newMeta,        \* newMeta of sort_enclosure
    log,            \* history: the kinds of step taken so far, runs of one kind merged
    issued,         \* history: the cell each label of the pass was given to, in order
    MetaChunk,      \* MetaChunk of load_step_file
    EnclosureChunk, \* EnclosureChunk of load_step_file
    skip_solids     \* self.skip_solids

vars == <<pc, settings, cells, meta_list, enclosure_list, meta_void, meta_reduced, coneInfo,
          idLabel, icount, j, deleted, newMeta, log, issued, MetaChunk, EnclosureChunk,
          skip_solids>>

loadVars == <<MetaChunk, EnclosureChunk, skip_solids>>

\* ------------------------------------------------------------------ helpers
Entry(r) == [k |-> "cell", r |-> r]
Delim(kind, e) == [k |-> kind, r |-> e]
IsCell(e) == e.k = "cell"

Put(f, key, v) == [x \in (DOMAIN f) \cup {key} |-> IF x = key THEN v ELSE f[x]]

DelAt(s, i) == SubSeq(s, 1, i - 1) \o SubSeq(s, i + 1, Len(s))

RECURSIVE DelForward(_, _)
DelForward(s, d) ==
    IF d = <<>> THEN s
    ELSE DelForward(DelAt(s, Head(d)), Tail(d))

RECURSIVE DelReversed(_, _)
DelReversed(s, d) ==
    IF d = <<>> THEN s
    ELSE DelReversed(DelAt(s, d[Len(d)]), SubSeq(d, 1, Len(d) - 1))

Logged(l, op) == IF l # <<>> /\ l[Len(l)] = op THEN l ELSE Append(l, op)

Range(s) == {s[i] : i \in DOMAIN s}

\* A solid as the loader leaves it, and a void cell as void generation leaves it.
NewSolid(id, kind) ==
    [id |-> id, IsEnclosure |-> kind.IsEnclosure, EnclosureID |-> kind.EnclosureID,
     NullCell |-> FALSE, Void |-> FALSE, SolidsNone |-> FALSE, elements |-> "seq",
     Comments |-> <<>>,
     label |-> 0, ci |-> "None", adj |-> {}, newLabel |-> {}, rewritten |-> FALSE,
     patch |-> {}, npatch |-> 0]

NewVoid(id, v) ==
    [id |-> id, IsEnclosure |-> FALSE, EnclosureID |-> v.EnclosureID,
     NullCell |-> v.NullCell, Void |-> TRUE, SolidsNone |-> FALSE, elements |-> "seq",
     Comments |-> <<>>,
     label |-> 0, ci |-> v.ci, adj |-> v.adj, newLabel |-> {}, rewritten |-> FALSE,
     patch |-> {}, npatch |-> 0]

SolidKinds ==
    {[IsEnclosure |-> FALSE, EnclosureID |-> e] : e \in 0..MaxEnclID}
    \cup {[IsEnclosure |-> TRUE, EnclosureID |-> e] : e \in 1..MaxEnclID}

\* Comments of the loaded solids and the labels of settings.voidExclude, as
\* sequences of characters.
CommentSet == {<<>>, <<"a">>, <<"b", "a">>}
LabelSet == {<<"a">>, <<"b">>}

ExcludeLists == UNION {[1..n -> LabelSet] : n \in 0..MaxLabels}

SettingsSet ==
    [voidGen : BOOLEAN, simplify : {"no", "full"}, sort_enclosure : BOOLEAN,
     startCell : StartCells, voidExclude : ExcludeLists]

IsEnclRef(e) == cells[e.r].IsEnclosure

\* ------------------------------------------------------------------ start()
InitRun ==
    /\ pc = "start"
    /\ settings \in {s \in SettingsSet : s.voidExclude = <<>>}
    /\ \E n \in 0..MaxSolids : \E kinds \in [1..n -> SolidKinds] :
          /\ cells = [i \in 1..n |-> NewSolid(i, kinds[i])]
          /\ meta_list = [i \in 1..n |-> Entry(i)]
          /\ enclosure_list = SelectSeq([i \in 1..n |-> Entry(i)],
                                        LAMBDA e : kinds[e.r].IsEnclosure)
    /\ meta_void = <<>>
    /\ meta_reduced = <<>>
    /\ coneInfo = <<>>
    /\ idLabel = <<>>
    /\ icount = 0
    /\ j = 0
    /\ deleted = <<>>
    /\ newMeta = <<>>
    /\ log = <<>>
    /\ issued = <<>>
    /\ MetaChunk = <<>>
    /\ EnclosureChunk = <<>>
    /\ skip_solids = <<>>

Start ==
    /\ pc = "start"
    /\ IF Len(meta_list) = 0
         THEN pc' = "exit" /\ j' = j
         ELSE pc' = "build" /\ j' = 1
    /\ UNCHANGED <<settings, cells, meta_list, enclosure_list, meta_void, coneInfo,
                   idLabel, icount, deleted, newMeta, log>>
    /\ UNCHANGED <<issued, meta_reduced, loadVars>>

\* The signed cone-surface reference cellDef may record for the cell r.
ConeRefOf(r) == IF r % 2 = 1 THEN 7 ELSE -8

\* What Conv.cellDef leaves on the cell r: the NullCell flag and the cone references.
CellDefResults(r) == [NullCell : BOOLEAN, cones : {{}, {ConeRefOf(r)}}]

RecordCones(info, id, cones) == IF cones # {} THEN Put(info, id, cones) ELSE info

BuildCell ==
    /\ pc = "build"
    /\ j <= Len(meta_list)
    /\ LET r == meta_list[j].r IN
         IF cells[r].IsEnclosure
           THEN UNCHANGED <<cells, coneInfo, log>>
           ELSE \E res \in CellDefResults(r) :
                  /\ cells' = [cells EXCEPT ![r].NullCell = res.NullCell]
                  /\ coneInfo' = RecordCones(coneInfo, cells[r].id, res.cones)
                  /\ log' = Logged(log, "build")
    /\ j' = j + 1
    /\ UNCHANGED <<pc, settings, meta_list, enclosure_list, meta_void, idLabel,
                   icount, deleted, newMeta>>
    /\ UNCHANGED <<issued, meta_reduced, loadVars>>

BuildDone ==
    /\ pc = "build"
    /\ j > Len(meta_list)
    /\ pc' = IF settings.voidGen /\ enclosure_list # <<>> THEN "buildEncl" ELSE "void"
    /\ j' = 1
    /\ UNCHANGED <<settings, cells, meta_list, enclosure_list, meta_void, coneInfo,
                   idLabel, icount, deleted, newMeta, log>>
    /\ UNCHANGED <<issued, meta_reduced, loadVars>>

BuildEnclosure ==
    /\ pc = "buildEncl"
    /\ j <= Len(enclosure_list)
    /\ LET r == enclosure_list[j].r IN
         \E res \in CellDefResults(r) :
            /\ cells' = [cells EXCEPT ![r].NullCell = res.NullCell]
            /\ coneInfo' = RecordCones(coneInfo, cells[r].id, res.cones)
            /\ log' = Logged(log, "build")
    /\ j' = j + 1
    /\ UNCHANGED <<pc, settings, meta_list, enclosure_list, meta_void, idLabel,
                   icount, deleted, newMeta>>
    /\ UNCHANGED <<issued, meta_reduced, loadVars>>

BuildEnclosureDone ==
    /\ pc = "buildEncl"
    /\ j > Len(enclosure_list)
    /\ pc' = "void"
    /\ j' = 1
    /\ UNCHANGED <<settings, cells, meta_list, enclosure_list, meta_void, coneInfo,
                   idLabel, icount, deleted, newMeta, log>>
    /\ UNCHANGED <<issued, meta_reduced, loadVars>>

\* ---------------------------------------------------------- void generation
\* What void.void_generation may put on a void cell: its enclosure level, the
\* NullCell flag and __commentInfo__ (None, a pair whose list is None, or a pair
\* with the set of identities of the solids the void is derived from).
VoidChoices(ids, eids) ==
    {[EnclosureID |-> e, NullCell |-> n, ci |-> "None", adj |-> {}] :
        e \in eids \cup {0}, n \in BOOLEAN}
    \cup {[EnclosureID |-> e, NullCell |-> n, ci |-> "NoList", adj |-> {}] :
        e \in eids \cup {0}, n \in BOOLEAN}
    \cup {[EnclosureID |-> e, NullCell |-> n, ci |-> "List", adj |-> a] :
        e \in eids \cup {0}, n \in BOOLEAN, a \in SUBSET ids}

IdsOf(list) == {cells[list[i].r].id : i \in DOMAIN list}
EnclIdsOf(list) == {cells[list[i].r].EnclosureID : i \in DOMAIN list}

\* init of start(): the identity the void cells are counted from.
VoidStartId(ml, el) ==
    IF ml # <<>> THEN cells[ml[Len(ml)].r].id - Len(el) ELSE 0

\* update_void_list: the k-th void cell gets identity init + k.
VoidId(init, k) == init + k

\* label in m.Comments: the label occurs in the comment as a substring.
Contains(text, label) ==
    \E i \in 0..(Len(text) - Len(label)) : SubSeq(text, i + 1, i + Len(label)) = label

Found(m, labelList) == \E k \in DOMAIN labelList : Contains(m.Comments, labelList[k])

\* exclude_cells, lines 766-779.
exclude_cells(MetaList, labelList) ==
    SelectSeq(MetaList, LAMBDA e : ~cells[e.r].IsEnclosure /\ ~Found(cells[e.r], labelList))

\* The stage of start() that follows void generation (lines 526-527).
AfterVoid_Rebuild(s) == "build"

AfterVoid(s) == IF s.simplify = "full" THEN "simplify" ELSE "number"

VoidGeneration ==
    /\ pc = "void"
    /\ IF settings.voidGen
         THEN LET reduced == IF settings.voidExclude = <<>>
                                THEN meta_list
                                ELSE exclude_cells(meta_list, settings.voidExclude)
                  init == VoidStartId(meta_list, enclosure_list)
                  base == Len(cells)
              IN \E m \in 0..RunVoids :
                   \E vs \in [1..m -> VoidChoices(IdsOf(reduced),
                                                  EnclIdsOf(enclosure_list))] :
                      /\ cells' = cells \o [k \in 1..m |-> NewVoid(VoidId(init, k), vs[k])]
                      /\ meta_void' = [k \in 1..m |-> Entry(base + k)]
                      /\ meta_reduced' = reduced
                      /\ log' = Logged(log, "void")
         ELSE /\ meta_void' = <<>>
              /\ UNCHANGED <<cells, meta_reduced, log>>
    /\ pc' = AfterVoid(settings)
    /\ j' = 1
    /\ UNCHANGED <<settings, meta_list, enclosure_list, coneInfo, idLabel, icount,
                   deleted, newMeta>>
    /\ UNCHANGED <<issued, loadVars>>

\* ------------------------------------------------------------ simplification
\* The outcomes of Definition.simplify followed by clean: a sequence, or one of
\* the constants False (empty) and True (universe).
SimplifyResults == {"seq", "False", "True"}

\* What the simplification loop of start() does to a cell whose definition
\* collapsed to `res`.
Simplified(m, res) == [m EXCEPT !.elements = res]

SimplifyCell ==
    /\ pc = "simplify"
    /\ j <= Len(meta_list)
    /\ LET r == meta_list[j].r IN
         \E level \in {0, 1} :
            IF level = 0 \/ cells[r].IsEnclosure
              THEN UNCHANGED <<cells, log>>
              ELSE \E res \in SimplifyResults :
                     /\ cells' = [cells EXCEPT ![r] = Simplified(cells[r], res)]
                     /\ log' = Logged(log, "simplify")
    /\ j' = j + 1
    /\ UNCHANGED <<pc, settings, meta_list, enclosure_list, meta_void, coneInfo,
                   idLabel, icount, deleted, newMeta>>
    /\ UNCHANGED <<issued, meta_reduced, loadVars>>

SimplifyDone ==
    /\ pc = "simplify"
    /\ j > Len(meta_list)
    /\ pc' = "number"
    /\ j' = 1
    /\ UNCHANGED <<settings, cells, meta_list, enclosure_list, meta_void, coneInfo,
                   idLabel, icount, deleted, newMeta, log>>
    /\ UNCHANGED <<issued, meta_reduced, loadVars>>

\* ------------------------------------------------------------------ numbering
cellOffSet == settings.startCell - 1

UseSortEnclosure == enclosure_list # <<>> /\ settings.sort_enclosure

Number ==
    /\ pc = "number"
    /\ pc' = IF UseSortEnclosure THEN "sortLoop" ELSE "flatSolids"
    /\ icount' = cellOffSet
    /\ idLabel' = Put(<<>>, 0, 0)
    /\ deleted' = <<>>
    /\ newMeta' = <<>>
    /\ issued' = <<>>
    /\ j' = 1
    /\ UNCHANGED <<settings, cells, meta_list, enclosure_list, meta_void, coneInfo, log>>
    /\ UNCHANGED <<meta_reduced, loadVars>>

\* update_comment: the identities of __commentInfo__[1] looked up in idLabel.
CommentKeyError(m, idl) == m.ci = "List" /\ ~(m.adj \subseteq DOMAIN idl)

update_comment(m, idl) ==
    IF m.ci = "None" THEN m
    ELSE IF m.ci = "NoList" THEN m
    ELSE [m EXCEPT !.newLabel = {idl[i] : i \in m.adj}, !.rewritten = TRUE]

Labelled(m, n) == [m EXCEPT !.label = n]

\* flat numbering, lines 558-592
FlatSkips(m) == m.NullCell \/ m.IsEnclosure

VoidSkips_Never(m) == FALSE

VoidSkips(m) == m.NullCell

FlatSolid ==
    /\ pc = "flatSolids"
    /\ j <= Len(meta_list)
    /\ LET r == meta_list[j].r
           m == cells[r]
       IN IF FlatSkips(m)
            THEN /\ deleted' = Append(deleted, j)
                 /\ UNCHANGED <<cells, icount, idLabel, log, issued>>
            ELSE /\ icount' = icount + 1
                 /\ cells' = [cells EXCEPT ![r] = Labelled(m, icount + 1)]
                 /\ idLabel' = Put(idLabel, m.id, icount + 1)
                 /\ log' = Logged(log, "label")
                 /\ issued' = Append(issued, r)
                 /\ UNCHANGED deleted
    /\ j' = j + 1
    /\ UNCHANGED <<pc, settings, meta_list, enclosure_list, meta_void, coneInfo, newMeta>>
    /\ UNCHANGED <<meta_reduced, loadVars>>

FlatPrune ==
    /\ pc = "flatSolids"
    /\ j > Len(meta_list)
    /\ meta_list' = Append(DelReversed(meta_list, deleted), Delim("VOID CELLS", 0))
    /\ deleted' = <<>>
    /\ pc' = "flatVoids"
    /\ j' = 1
    /\ UNCHANGED <<settings, cells, enclosure_list, meta_void, coneInfo, idLabel,
                   icount, newMeta, log>>
    /\ UNCHANGED <<issued, meta_reduced, loadVars>>

FlatVoid ==
    /\ pc = "flatVoids"
    /\ j <= Len(meta_void)
    /\ LET r == meta_void[j].r
           m == cells[r]
       IN IF VoidSkips(m)
            THEN /\ deleted' = Append(deleted, j)
                 /\ j' = j + 1
                 /\ UNCHANGED <<pc, cells, icount, log, issued>>
            ELSE /\ icount' = icount + 1
                 /\ issued' = Append(issued, r)
                 /\ IF CommentKeyError(m, idLabel)
                      THEN /\ cells' = [cells EXCEPT ![r] = Labelled(m, icount + 1)]
                           /\ pc' = "fault"
                           /\ j' = j
                           /\ log' = Logged(log, "label")
                      ELSE /\ cells' = [cells EXCEPT ![r] =
                                           update_comment(Labelled(m, icount + 1), idLabel)]
                           /\ j' = j + 1
                           /\ log' = IF m.ci = "List"
                                       THEN Logged(Logged(log, "label"), "rewrite")
                                       ELSE Logged(log, "label")
                           /\ UNCHANGED pc
                 /\ UNCHANGED deleted
    /\ UNCHANGED <<settings, meta_list, enclosure_list, meta_void, coneInfo, idLabel,
                   newMeta>>
    /\ UNCHANGED <<meta_reduced, loadVars>>

FlatExtend ==
    /\ pc = "flatVoids"
    /\ j > Len(meta_void)
    /\ meta_void' = DelReversed(meta_void, deleted)
    /\ meta_list' = meta_list \o DelReversed(meta_void, deleted)
    /\ deleted' = <<>>
    /\ pc' = "cones"
    /\ j' = 1
    /\ UNCHANGED <<settings, cells, enclosure_list, coneInfo, idLabel, icount,
                   newMeta, log>>
    /\ UNCHANGED <<issued, meta_reduced, loadVars>>

\* ------------------------------------------------------------ sort_enclosure
\* newList[e]: the void cells of meta_void whose EnclosureID is e, in order.  The
\* dictionary has the key e only when there is such a cell.
newList(e) == SelectSeq(meta_void, LAMBDA x : cells[x.r].EnclosureID = e)

\* The loop over a group of void cells (lines 804-810 and 832-838): every cell
\* that is not a NullCell takes the next label and is appended to newMeta.
RECURSIVE LabelGroup(_, _, _)
LabelGroup(grp, i, st) ==
    IF i > Len(grp) THEN st
    ELSE LET r == grp[i].r
             m == st.cells[r]
         IN IF VoidSkips(m)
              THEN LabelGroup(grp, i + 1, st)
              ELSE LabelGroup(grp, i + 1,
                     [cells |-> [st.cells EXCEPT ![r] = Labelled(m, st.icount + 1)],
                      icount |-> st.icount + 1,
                      idLabel |-> Put(st.idLabel, m.id, st.icount + 1),
                      newMeta |-> Append(st.newMeta, grp[i]),
                      log |-> Logged(st.log, "label"),
                      issued |-> Append(st.issued, r)])

SortState(nm) ==
    [cells |-> cells, icount |-> icount, idLabel |-> idLabel, newMeta |-> nm, log |-> log,
     issued |-> issued]

\* The cells sort_enclosure emits for the enclosure entry m of MetaList.
EnclosureGroup(m) == newList(m.EnclosureID)

SortEntry ==
    /\ pc = "sortLoop"
    /\ j <= Len(meta_list)
    /\ LET r == meta_list[j].r
           m == cells[r]
       IN IF m.NullCell
            THEN /\ j' = j + 1
                 /\ UNCHANGED <<pc, cells, icount, idLabel, newMeta, log, issued>>
            ELSE IF m.IsEnclosure
              THEN IF EnclosureGroup(m) = <<>>
                     THEN /\ newMeta' = Append(newMeta, Delim("ENCLOSURE", m.EnclosureID))
                          /\ pc' = "fault"
                          /\ UNCHANGED <<cells, icount, idLabel, j, log, issued>>
                     ELSE LET st == LabelGroup(EnclosureGroup(m), 1,
                                      SortState(Append(newMeta,
                                                Delim("ENCLOSURE", m.EnclosureID))))
                          IN /\ cells' = st.cells
                             /\ icount' = st.icount
                             /\ idLabel' = st.idLabel
                             /\ newMeta' = Append(st.newMeta,
                                                  Delim("END ENCLOSURE", m.EnclosureID))
                             /\ log' = st.log
                             /\ issued' = st.issued
                             /\ j' = j + 1
                             /\ UNCHANGED pc
              ELSE /\ icount' = icount + 1
                   /\ cells' = [cells EXCEPT ![r] = Labelled(m, icount + 1)]
                   /\ idLabel' = Put(idLabel, m.id, icount + 1)
                   /\ newMeta' = Append(newMeta, meta_list[j])
                   /\ log' = Logged(log, "label")
                   /\ issued' = Append(issued, r)
                   /\ j' = j + 1
                   /\ UNCHANGED pc
    /\ UNCHANGED <<settings, meta_list, enclosure_list, meta_void, coneInfo, deleted>>
    /\ UNCHANGED <<meta_reduced, loadVars>>

SortOuterVoid ==
    /\ pc = "sortLoop"
    /\ j > Len(meta_list)
    /\ IF newList(0) = <<>>
         THEN /\ newMeta' = Append(newMeta, Delim("VOID CELLS", 0))
              /\ pc' = "fault"
              /\ UNCHANGED <<cells, icount, idLabel, j, log, issued>>
         ELSE LET st == LabelGroup(newList(0), 1,
                                   SortState(Append(newMeta, Delim("VOID CELLS", 0))))
              IN /\ cells' = st.cells
                 /\ icount' = st.icount
                 /\ idLabel' = st.idLabel
                 /\ newMeta' = st.newMeta
                 /\ log' = st.log
                 /\ issued' = st.issued
                 /\ pc' = "sortUpdate"
                 /\ j' = 1
    /\ UNCHANGED <<settings, meta_list, enclosure_list, meta_void, coneInfo, deleted>>
    /\ UNCHANGED <<meta_reduced, loadVars>>

SortUpdate ==
    /\ pc = "sortUpdate"
    /\ j <= Len(newMeta)
    /\ LET e == newMeta[j] IN
         IF ~IsCell(e) \/ ~cells[e.r].Void \/ cells[e.r].IsEnclosure
           THEN /\ j' = j + 1
                /\ UNCHANGED <<pc, cells, log>>
           ELSE IF CommentKeyError(cells[e.r], idLabel)
             THEN /\ pc' = "fault"
                  /\ UNCHANGED <<cells, j, log>>
             ELSE /\ cells' = [cells EXCEPT ![e.r] = update_comment(cells[e.r], idLabel)]
                  /\ log' = IF cells[e.r].ci = "List" THEN Logged(log, "rewrite") ELSE log
                  /\ j' = j + 1
                  /\ UNCHANGED pc
    /\ UNCHANGED <<settings, meta_list, enclosure_list, meta_void, coneInfo, idLabel,
                   icount, deleted, newMeta>>
    /\ UNCHANGED <<issued, meta_reduced, loadVars>>

SortReturn ==
    /\ pc = "sortUpdate"
    /\ j > Len(newMeta)
    /\ meta_list' = newMeta
    /\ pc' = "cones"
    /\ j' = 1
    /\ UNCHANGED <<settings, cells, enclosure_list, meta_void, coneInfo, idLabel,
                   icount, deleted, newMeta, log>>
    /\ UNCHANGED <<issued, meta_reduced, loadVars>>

\* ------------------------------------------------------------- process_cones
Inverted_Same(S) == S

Inverted(S) == {-x : x \in S}

\* The cone references process_cones hands to add_cone_plane for the void cell m.
VoidCones(m, info) == UNION {Inverted(info[Id]) : Id \in m.adj \cap DOMAIN info}

\* The cone references process_cones hands to add_cone_plane for the solid m.
SolidCones(m, info) == info[m.id]

Patched(m, cones) == [m EXCEPT !.patch = @ \cup cones, !.npatch = @ + 1]

ProcessCone ==
    /\ pc = "cones"
    /\ j <= Len(meta_list)
    /\ LET e == meta_list[j] IN
         IF ~IsCell(e) THEN UNCHANGED <<cells, log>>
         ELSE LET m == cells[e.r] IN
           IF m.id \notin DOMAIN coneInfo /\ ~m.Void THEN UNCHANGED <<cells, log>>
           ELSE IF m.Void /\ m.ci # "None"
             THEN IF m.ci = "NoList" THEN UNCHANGED <<cells, log>>
                  ELSE /\ cells' = [cells EXCEPT ![e.r] = Patched(m, VoidCones(m, coneInfo))]
                       /\ log' = Logged(log, "patch")
             ELSE IF ~m.Void
               THEN /\ cells' = [cells EXCEPT ![e.r] = Patched(m, SolidCones(m, coneInfo))]
                    /\ log' = Logged(log, "patch")
               ELSE UNCHANGED <<cells, log>>
    /\ j' = j + 1
    /\ UNCHANGED <<pc, settings, meta_list, enclosure_list, meta_void, coneInfo,
                   idLabel, icount, deleted, newMeta>>
    /\ UNCHANGED <<issued, meta_reduced, loadVars>>

ConesDone ==
    /\ pc = "cones"
    /\ j > Len(meta_list)
    /\ pc' = "done"
    /\ UNCHANGED <<settings, cells, meta_list, enclosure_list, meta_void, coneInfo,
                   idLabel, icount, j, deleted, newMeta, log>>
    /\ UNCHANGED <<issued, meta_reduced, loadVars>>

Numbering ==
    \/ Number
    \/ FlatSolid
    \/ FlatPrune
    \/ FlatVoid
    \/ FlatExtend
    \/ SortEntry
    \/ SortOuterVoid
    \/ SortUpdate
    \/ SortReturn

Next ==
    \/ Start
    \/ BuildCell
    \/ BuildDone
    \/ BuildEnclosure
    \/ BuildEnclosureDone
    \/ VoidGeneration
    \/ SimplifyCell
    \/ SimplifyDone
    \/ Numbering
    \/ ProcessCone
    \/ ConesDone

Spec == InitRun /\ [][Next]_vars

\* ------------------------------------------- the numbering pass on its inputs
\* The inputs of the numbering pass and of process_cones as the earlier stages of
\* start() leave them: solids with strictly increasing identities and their
\* NullCell flags, the cone records, and the void cells with identities counted
\* from init.
InitNum ==
    /\ pc = "number"
    /\ settings \in {s \in SettingsSet :
                       s.voidGen /\ s.simplify = "no" /\ s.voidExclude = <<>>}
    /\ \E n \in 1..MaxSolids :
       \E ss \in {f \in [1..n -> [kind : SolidKinds,
                                  res : UNION {CellDefResults(i) : i \in 1..n}]] :
                     \A i \in 1..n : f[i].res \in CellDefResults(i)} :
         LET solids == [i \in 1..n |->
                          [NewSolid(i, ss[i].kind) EXCEPT !.NullCell = ss[i].res.NullCell]]
             ml == [i \in 1..n |-> Entry(i)]
             el == SelectSeq(ml, LAMBDA e : solids[e.r].IsEnclosure)
             init == solids[n].id - Len(el)
             ids == {solids[i].id : i \in 1..n}
             eids == {solids[el[i].r].EnclosureID : i \in DOMAIN el}
         IN /\ meta_list = ml
            /\ enclosure_list = el
            /\ coneInfo = [id \in {solids[i].id : i \in {x \in 1..n : ss[x].res.cones # {}}}
                             |-> ss[CHOOSE x \in 1..n : solids[x].id = id].res.cones]
            /\ \E m \in 0..MaxVoids : \E vs \in [1..m -> VoidChoices(ids, eids)] :
                  /\ cells = solids \o [k \in 1..m |-> NewVoid(VoidId(init, k), vs[k])]
                  /\ meta_void = [k \in 1..m |-> Entry(n + k)]
    /\ meta_reduced = <<>>
    /\ idLabel = <<>>
    /\ icount = 0
    /\ j = 1
    /\ deleted = <<>>
    /\ newMeta = <<>>
    /\ log = <<>>
    /\ issued = <<>>
    /\ MetaChunk = <<>>
    /\ EnclosureChunk = <<>>
    /\ skip_solids = <<>>

NextNum ==
    \/ Numbering
    \/ ProcessCone
    \/ ConesDone

SpecNum == InitNum /\ [][NextNum]_vars

\* ------------------------------------------------------------ load_step_file
MaxPerFile == 2     \* solids Load.load_cad returns for one step file
MaxSkip == 2        \* entries of skip_solids
SkipIndexes == -1..MaxPerFile   \* values of the entries of skip_solids

\* What Load.load_cad returns for one file: Meta, cells with identities 1, 2, ...
\* that may be enclosures and may have Solids None (unsupported geometry), and
\* Enclosure, the enclosure cells among them.
LoadedKinds == [IsEnclosure : BOOLEAN, SolidsNone : BOOLEAN]

LoadedCell(id, kd) ==
    [NewSolid(id, [IsEnclosure |-> kd.IsEnclosure,
                   EnclosureID |-> IF kd.IsEnclosure THEN 1 ELSE 0])
       EXCEPT !.SolidsNone = kd.SolidsNone]

\* join_meta_lists, lines 754-763: the lists after the first are appended to the
\* first one with their identities renumbered, when the first one is not empty.
Renumbered(cs, M, lastID) ==
    [r \in DOMAIN cs |->
       IF \E i \in DOMAIN M : M[i].r = r
         THEN [cs[r] EXCEPT !.id = lastID + (CHOOSE i \in DOMAIN M : M[i].r = r) - 1]
         ELSE cs[r]]

RECURSIVE JoinFrom(_, _, _)
JoinFrom(MList, f, st) ==
    IF f > Len(MList) THEN st
    ELSE LET lastID == st.cells[st.list[Len(st.list)].r].id + 1
         IN JoinFrom(MList, f + 1,
                     [list |-> st.list \o MList[f],
                      cells |-> Renumbered(st.cells, MList[f], lastID)])

join_meta_lists(MList, cs) ==
    IF MList[1] # <<>>
      THEN JoinFrom(MList, 2, [list |-> MList[1], cells |-> cs])
      ELSE [list |-> MList[1], cells |-> cs]

\* The number of cells of the files before file f.
RECURSIVE SizeBefore(_, _)
SizeBefore(sizes, f) == IF f <= 1 THEN 0 ELSE SizeBefore(sizes, f - 1) + sizes[f - 1]

InitLoad ==
    /\ pc = "load"
    /\ settings \in {s \in SettingsSet :
                       s.voidGen /\ s.simplify = "no" /\ s.sort_enclosure /\ s.startCell = 1
                       /\ s.voidExclude = <<>>}
    /\ \E nf \in 1..MaxFiles : \E sizes \in [1..nf -> 0..MaxPerFile] :
         LET total == SizeBefore(sizes, nf + 1)
             first(f) == SizeBefore(sizes, f)
             fileOf(r) == CHOOSE f \in 1..nf : first(f) < r /\ r <= first(f) + sizes[f]
         IN \E kds \in [1..total -> LoadedKinds] :
              /\ cells = [r \in 1..total |-> LoadedCell(r - first(fileOf(r)), kds[r])]
              /\ MetaChunk = [f \in 1..nf |-> [i \in 1..sizes[f] |-> Entry(first(f) + i)]]
              /\ EnclosureChunk =
                   [f \in 1..nf |-> SelectSeq([i \in 1..sizes[f] |-> Entry(first(f) + i)],
                                              LAMBDA e : kds[e.r].IsEnclosure)]
    /\ \E ns \in 0..MaxSkip : skip_solids \in [1..ns -> SkipIndexes]
    /\ meta_list = <<>>
    /\ enclosure_list = <<>>
    /\ meta_void = <<>>
    /\ meta_reduced = <<>>
    /\ coneInfo = <<>>
    /\ idLabel = <<>>
    /\ icount = 0
    /\ j = 0
    /\ deleted = <<>>
    /\ newMeta = <<>>
    /\ log = <<>>
    /\ issued = <<>>

startVars == <<settings, meta_void, meta_reduced, coneInfo, idLabel, icount, deleted, newMeta, log, issued>>

\* lines 320-328
LoadJoin ==
    /\ pc = "load"
    /\ LET jm == join_meta_lists(MetaChunk, cells)
           je == join_meta_lists(EnclosureChunk, jm.cells)
       IN /\ meta_list' = jm.list
          /\ enclosure_list' = je.list
          /\ cells' = je.cells
    /\ pc' = "skip"
    /\ UNCHANGED <<j, startVars, loadVars>>

\* sorted(skip_solids, reverse=True)
RECURSIVE SortedReverse(_)
SortedReverse(s) ==
    IF s = <<>> THEN <<>>
    ELSE LET mx == CHOOSE x \in Range(s) : \A y \in Range(s) : y <= x
             at == CHOOSE i \in DOMAIN s : s[i] = mx
         IN <<mx>> \o SortedReverse(DelAt(s, at))

\* del list[solid_index] of python: a negative index counts from the end, an index
\* outside the list raises IndexError.
IndexInRange(list, idx) == idx < Len(list) /\ idx >= -Len(list)

DelIndex(list, idx) == DelAt(list, IF idx >= 0 THEN idx + 1 ELSE Len(list) + idx + 1)

\* lines 331-333; ok is FALSE when a del raised IndexError.
RECURSIVE SkipAll(_, _)
SkipAll(list, idxs) ==
    IF idxs = <<>> THEN [ok |-> TRUE, list |-> list]
    ELSE IF ~IndexInRange(list, Head(idxs)) THEN [ok |-> FALSE, list |-> list]
    ELSE SkipAll(DelIndex(list, Head(idxs)), Tail(idxs))

LoadSkip ==
    /\ pc = "skip"
    /\ LET res == SkipAll(meta_list, SortedReverse(skip_solids))
       IN /\ meta_list' = res.list
          /\ pc' = IF res.ok THEN "check" ELSE "fault"
    /\ UNCHANGED <<cells, enclosure_list, j, startVars, loadVars>>

\* lines 335-338
EnclosureUnsupported(list) == \E i \in DOMAIN list : cells[list[i].r].SolidsNone

LoadCheck ==
    /\ pc = "check"
    /\ IF EnclosureUnsupported(enclosure_list)
         THEN pc' = "exit" /\ j' = j
         ELSE pc' = "remove" /\ j' = Len(meta_list)
    /\ UNCHANGED <<cells, meta_list, enclosure_list, startVars, loadVars>>

\* lines 340-342: the reversed iterator is at position j; list.remove deletes the
\* first entry that is the cell m.
RemoveFirst(list, e) == DelAt(list, CHOOSE i \in DOMAIN list :
                                      list[i] = e /\ \A k \in 1..(i - 1) : list[k] # e)

LoadRemove ==
    /\ pc = "remove"
    /\ j >= 1 /\ j <= Len(meta_list)
    /\ meta_list' = IF cells[meta_list[j].r].SolidsNone
                      THEN RemoveFirst(meta_list, meta_list[j])
                      ELSE meta_list
    /\ j' = j - 1
    /\ UNCHANGED <<pc, cells, enclosure_list, startVars, loadVars>>

LoadReturn ==
    /\ pc = "remove"
    /\ ~(j >= 1 /\ j <= Len(meta_list))
    /\ pc' = "loaded"
    /\ UNCHANGED <<cells, meta_list, enclosure_list, j, startVars, loadVars>>

NextLoad ==
    \/ LoadJoin
    \/ LoadSkip
    \/ LoadCheck
    \/ LoadRemove
    \/ LoadReturn

SpecLoad == InitLoad /\ [][NextLoad]_vars

\* ------------------------------------------------- void generation onwards
\* start() from the void generation phase on, for solids already built: the
\* comments of the solids and settings.voidExclude are drawn.
InitVoid ==
    /\ pc = "void"
    /\ settings \in {s \in SettingsSet : s.voidGen /\ s.simplify = "no" /\ s.startCell = 1}
    /\ \E n \in 1..MaxSolids :
       \E ss \in [1..n -> [kind : SolidKinds, NullCell : BOOLEAN, Comments : CommentSet]] :
         LET solids == [i \in 1..n |->
                          [NewSolid(i, ss[i].kind) EXCEPT !.NullCell = ss[i].NullCell,
                                                          !.Comments = ss[i].Comments]]
             ml == [i \in 1..n |-> Entry(i)]
         IN /\ cells = solids
            /\ meta_list = ml
            /\ enclosure_list = SelectSeq(ml, LAMBDA e : solids[e.r].IsEnclosure)
    /\ meta_void = <<>>
    /\ meta_reduced = <<>>
    /\ coneInfo = <<>>
    /\ idLabel = <<>>
    /\ icount = 0
    /\ j = 0
    /\ deleted = <<>>
    /\ newMeta = <<>>
    /\ log = <<>>
    /\ issued = <<>>
    /\ MetaChunk = <<>>
    /\ EnclosureChunk = <<>>
    /\ skip_solids = <<>>

NextVoid ==
    \/ VoidGeneration
    \/ Numbering
    \/ ProcessCone
    \/ ConesDone

SpecVoid == InitVoid /\ [][NextVoid]_vars

\* ==================================================================== claims
Finalized == pc \in {"cones", "done"}

SolidRefs == {r \in DOMAIN cells : ~cells[r].Void}
VoidRefs == {r \in DOMAIN cells : cells[r].Void}

\* The cells in the order the loader and void generation created them.
AllEntries == [r \in 1..Len(cells) |-> Entry(r)]
CellEntries == SelectSeq(meta_list, IsCell)

SurvivingSolids ==
    SelectSeq(AllEntries, LAMBDA e : ~cells[e.r].Void /\ ~cells[e.r].NullCell
                                     /\ ~cells[e.r].IsEnclosure)
SurvivingVoids == SelectSeq(AllEntries, LAMBDA e : cells[e.r].Void /\ ~cells[e.r].NullCell)

\* C1: NullCell pruning.  In both finalize modes no cell whose NullCell flag is set
\* is in the finalized list, no such cell carries a label, and every label the
\* pass has counted was given to a cell that is not a NullCell.
C1_NullCellPruned ==
    /\ Finalized =>
         \A i \in DOMAIN meta_list :
            IsCell(meta_list[i]) => ~cells[meta_list[i].r].NullCell
    /\ pc # "number" =>
         /\ \A r \in DOMAIN cells : cells[r].NullCell => cells[r].label = 0
         /\ \A k \in DOMAIN issued : ~cells[issued[k]].NullCell
         /\ icount = cellOffSet + Len(issued)

C1_Witness ==
    /\ pc = "done"
    /\ UseSortEnclosure
    /\ \E r \in SolidRefs : cells[r].NullCell
    /\ \E r \in VoidRefs : cells[r].NullCell
    /\ \E r \in VoidRefs : cells[r].label = cellOffSet + 1

\* C2: sequential labels.  After finalize the cells of the final list, read in
\* list order, carry the labels cellOffSet+1, cellOffSet+2, ..., cellOffSet+n.
C2_SequentialLabels ==
    Finalized =>
      \A i \in DOMAIN CellEntries : cells[CellEntries[i].r].label = cellOffSet + i

\* C3: enclosure grouping.  With sort_enclosure every emitted cell of an enclosure
\* (solid or void) lies between the open and the close delimiter of that enclosure
\* with only cells in between, the outer void cells follow the VOID CELLS
\* delimiter, and the labels increase contiguously along the list.
InsideEnclosure(i, e) ==
    \E a \in 1..(i - 1) : \E b \in (i + 1)..Len(meta_list) :
       /\ meta_list[a] = Delim("ENCLOSURE", e)
       /\ meta_list[b] = Delim("END ENCLOSURE", e)
       /\ \A k \in (a + 1)..(b - 1) : IsCell(meta_list[k])

C3_EnclosureGrouping ==
    (Finalized /\ UseSortEnclosure) =>
      /\ \A i \in DOMAIN meta_list :
            IsCell(meta_list[i]) =>
              LET m == cells[meta_list[i].r] IN
                /\ m.EnclosureID # 0 => InsideEnclosure(i, m.EnclosureID)
                /\ (m.Void /\ m.EnclosureID = 0) =>
                     \E a \in 1..(i - 1) : meta_list[a] = Delim("VOID CELLS", 0)
      /\ C2_SequentialLabels

\* C4: flat ordering.  Without sort_enclosure (or without enclosures) the final
\* meta_list is the surviving solids in their original order, one VOID CELLS
\* delimiter, then the surviving void cells in their original order.
C4_FlatOrdering ==
    (Finalized /\ ~UseSortEnclosure) =>
      meta_list = SurvivingSolids \o <<Delim("VOID CELLS", 0)>> \o SurvivingVoids

C4_Witness ==
    /\ pc = "done"
    /\ ~UseSortEnclosure
    /\ Len(SurvivingSolids) >= 1
    /\ Len(SurvivingVoids) >= 2
    /\ \E r \in SolidRefs : cells[r].NullCell \/ cells[r].IsEnclosure

\* C5: cross-reference rewriting.  After finalize the comment of every emitted
\* void cell that recorded adjacent solid identities lists exactly the labels of
\* the solids with those identities (0 for the identity 0), and no label is
\* assigned after a cross-reference has been rewritten.
SolidLabelOfId(i) ==
    IF i = 0 THEN 0 ELSE cells[CHOOSE r \in SolidRefs : cells[r].id = i].label

C5_CrossReference ==
    /\ Finalized =>
         \A i \in DOMAIN meta_list :
            (IsCell(meta_list[i]) /\ cells[meta_list[i].r].Void
               /\ cells[meta_list[i].r].ci = "List") =>
              LET m == cells[meta_list[i].r] IN
                /\ m.rewritten
                /\ m.newLabel = {SolidLabelOfId(x) : x \in m.adj}
    /\ \A a \in DOMAIN log : \A b \in DOMAIN log :
          a < b => ~(log[a] = "rewrite" /\ log[b] = "label")

\* C6: cone patch propagation.  After process_cones a solid of the list with a
\* cone record is patched with exactly its own recorded reference, a void cell
\* with recorded adjacency with exactly the sign-inverted references of the
\* adjacent solids that have a record, and every other cell with nothing.
HasConeRecord(r) == cells[r].id \in DOMAIN coneInfo

ExpectedPatch(r) ==
    IF ~cells[r].Void
      THEN IF HasConeRecord(r) THEN {ConeRefOf(r)} ELSE {}
      ELSE IF cells[r].ci = "List"
        THEN {y \in -8..8 : \E q \in SolidRefs :
                cells[q].id \in cells[r].adj /\ HasConeRecord(q) /\ ConeRefOf(q) + y = 0}
        ELSE {}

C6_ConePatch ==
    pc = "done" =>
      \A i \in DOMAIN meta_list :
         IsCell(meta_list[i]) => cells[meta_list[i].r].patch = ExpectedPatch(meta_list[i].r)

C6_Witness ==
    /\ pc = "done"
    /\ \E i \in DOMAIN meta_list :
          IsCell(meta_list[i]) /\ cells[meta_list[i].r].Void
          /\ cells[meta_list[i].r].patch = {-7, 8}
    /\ \E i \in DOMAIN meta_list :
          IsCell(meta_list[i]) /\ ~cells[meta_list[i].r].Void
          /\ cells[meta_list[i].r].patch = {7}

\* C7: stage ordering.  As claimed: building before simplification, simplification
\* before void generation, void generation before numbering and cone patching.
ClaimedRank(op) ==
    IF op = "build" THEN 1 ELSE IF op = "simplify" THEN 2 ELSE IF op = "void" THEN 3 ELSE 4

StageRank(op) ==
    IF op = "build" THEN 1 ELSE IF op = "void" THEN 2 ELSE IF op = "simplify" THEN 3 ELSE 4

C8_VoidIdsFresh ==
    \A v \in VoidRefs : \A q \in SolidRefs : cells[v].id # cells[q].id

\* C9: empty simplification result.  A cell whose definition the simplification
\* of start() collapsed to the constant False is marked NullCell and is not in the
\* finalized list; a collapse to True does not end the run.
C9_EmptyMarkedNull ==
    /\ \A r \in DOMAIN cells : cells[r].elements = "False" => cells[r].NullCell
    /\ Finalized =>
         \A i \in DOMAIN meta_list :
            IsCell(meta_list[i]) => cells[meta_list[i].r].elements # "False"
    /\ \A r \in DOMAIN cells : cells[r].elements = "True" => pc \notin {"exit", "fault"}

\* C10: unsupported enclosure geometry is fatal.  When load_step_file returns, no
\* enclosure entry that Load.load_cad returned has Solids None, and neither
\* enclosure_list nor meta_list holds an entry whose Solids is None.
C10_UnsupportedEnclosureHalts ==
    pc = "loaded" =>
      /\ \A f \in DOMAIN EnclosureChunk : ~EnclosureUnsupported(EnclosureChunk[f])
      /\ ~EnclosureUnsupported(enclosure_list)
      /\ ~EnclosureUnsupported(meta_list)

\* C11: emitted once.  In enclosure-grouped finalize every surviving cell (a
\* solid that is no enclosure entry, or a void cell, with NullCell unset) is in
\* the final list exactly once and was given exactly one label; in particular no
\* surviving void cell is missing from the list.
Surviving(r) == ~cells[r].NullCell /\ ~cells[r].IsEnclosure

TimesEmitted(r) == Cardinality({i \in DOMAIN meta_list : meta_list[i] = Entry(r)})

TimesLabelled(r) == Cardinality({k \in DOMAIN issued : issued[k] = r})

C11_EmittedOnce ==
    (Finalized /\ UseSortEnclosure) =>
      \A r \in DOMAIN cells :
         Surviving(r) => TimesEmitted(r) = 1 /\ TimesLabelled(r) = 1

\* C12: inconsistent cross-reference in cone patching.  process_cones always
\* completes, and the patch of a void cell with recorded adjacency holds exactly
\* the sign-inverted references of the adjacent identities that have a cone
\* record and belong to a solid still in the list: an identity without a record,
\* or of a removed solid, contributes nothing and does not stop the others.
RemovedId(x) ==
    \E r \in SolidRefs : cells[r].id = x /\ \A i \in DOMAIN meta_list : meta_list[i] # Entry(r)

ApplicableIds(m) == {x \in m.adj \cap DOMAIN coneInfo : ~RemovedId(x)}

C12_InconsistentCrossReference ==
    /\ (pc = "cones" /\ j <= Len(meta_list)) => ENABLED ProcessCone
    /\ pc = "done" =>
         \A i \in DOMAIN meta_list :
            (IsCell(meta_list[i]) /\ cells[meta_list[i].r].Void
               /\ cells[meta_list[i].r].ci = "List") =>
              LET m == cells[meta_list[i].r] IN
                m.patch = {y \in -8..8 : \E x \in ApplicableIds(m) : (0 - y) \in coneInfo[x]}

\* C13: void exclusion.  The cells handed to void generation are exactly the
\* cells of meta_list whose comment contains none of the voidExclude labels, in
\* their original order (enclosure entries are handed over or not by that rule
\* alone, whether voidExclude is empty or not); meta_list is as it was; and after
\* finalize every excluded surviving solid is in the final list with a label.
MatchesNone(e) == ~\E k \in DOMAIN settings.voidExclude :
                      Contains(cells[e.r].Comments, settings.voidExclude[k])

LoadedSolids == SelectSeq(AllEntries, LAMBDA e : ~cells[e.r].Void)

C13_VoidExclusion ==
    /\ pc = "number" =>
         /\ meta_reduced = SelectSeq(LoadedSolids, MatchesNone)
         /\ meta_list = LoadedSolids
    /\ Finalized =>
         \A r \in SolidRefs :
            (Surviving(r) /\ ~MatchesNone(Entry(r))) =>
               /\ \E i \in DOMAIN meta_list : meta_list[i] = Entry(r)
               /\ cells[r].label # 0

\* C14: no mutation after numbering.  Once the numbering of start() has given
\* a label to a cell, no step changes the boolean definition of any cell: neither
\* its simplified form nor the cone planes patched into it.
LabelsAssigned == \E r \in DOMAIN cells : cells[r].label # 0

DefinitionOf(m) == <<m.elements, m.patch>>

C14_NoMutationAfterNumbering ==
    [][LabelsAssigned =>
         \A r \in DOMAIN cells : DefinitionOf(cells'[r]) = DefinitionOf(cells[r])]_vars

\* C15: skip_solids.  After the skip loop of load_step_file the list of solids is
\* the list as loaded with exactly the cells at the positions named by
\* skip_solids removed (each index read against the list as loaded, a negative
\* one from its end), the other cells in their original order.
AsLoaded == join_meta_lists(MetaChunk, cells).list

PositionOf(idx) == IF idx >= 0 THEN idx + 1 ELSE Len(AsLoaded) + idx + 1

KeptPositions ==
    {i \in DOMAIN AsLoaded : \A k \in DOMAIN skip_solids : PositionOf(skip_solids[k]) # i}

ExpectedAfterSkip ==
    [k \in 1..Cardinality(KeptPositions) |->
       AsLoaded[CHOOSE i \in KeptPositions :
                   Cardinality({x \in KeptPositions : x <= i}) = k]]

C15_SkipSolids == pc = "check" => meta_list = ExpectedAfterSkip

\* C16: total identity-to-label lookup.  In both finalize modes, whenever
\* update_comment is about to rewrite a void cell that recorded adjacent
\* identities, every one of them is a key of idLabel.
RewriteDue(m) == m.Void /\ ~m.IsEnclosure /\ ~m.NullCell /\ m.ci = "List"

C16_TotalLookup ==
    /\ (pc = "flatVoids" /\ j <= Len(meta_void) /\ RewriteDue(cells[meta_void[j].r])) =>
          cells[meta_void[j].r].adj \subseteq DOMAIN idLabel
    /\ (pc = "sortUpdate" /\ j <= Len(newMeta) /\ IsCell(newMeta[j])
          /\ RewriteDue(cells[newMeta[j].r])) =>
          cells[newMeta[j].r].adj \subseteq DOMAIN idLabel

\* C17: join_meta_lists.  For the per-file lists load_step_file collects, an
\* empty first list included, each joined list holds every cell of every file
\* once, in file order then in-file order, and the identities along the list
\* joined last are strictly increasing (so pairwise distinct).
RECURSIVE Flatten(_)
Flatten(chunks) == IF chunks = <<>> THEN <<>> ELSE Head(chunks) \o Flatten(Tail(chunks))

IdsIncreasing(list, cs) ==
    \A a \in DOMAIN list : \A b \in DOMAIN list : a < b => cs[list[a].r].id < cs[list[b].r].id

C17_JoinMetaLists ==
    pc = "skip" =>
      /\ meta_list = Flatten(MetaChunk)
      /\ enclosure_list = Flatten(EnclosureChunk)
      /\ IdsIncreasing(enclosure_list, cells)

====
